---- MODULE Spec2Model ----
(***************************************************************************)
(* Model of the AiPoParser purchase-order drafting loop:                   *)
(*   - the clarification merge (server/ai-parser.ts,                       *)
(*     regeneratePOWithClarifications) and the routes that reach it,       *)
(*   - the React session state of the CreatePO page (aiResponse,           *)
(*     editingItems, clarificationAnswers, activeQuestionDetails),         *)
(*   - the commit path: canSaveDraft / handleSavePO on the client and      *)
(*     POST /api/purchase-orders with the storage layer on the server.     *)
(*                                                                         *)
(* Encoding.  Money is an integer number of thousandths of a currency     *)
(* unit (1254 = 1.254), confidence an integer number of hundredths.        *)
(* JavaScript null / undefined are the sentinels NullNum / UndefNum for    *)
(* numbers and NullStr / UndefStr for strings.  Item indexes are 0-based   *)
(* as in the source; items[i + 1] is the item with index i.  A question    *)
(* id n stands for the id string "q<n>".  A question text is abstracted to *)
(* the set of keywords (lower-cased substrings) it contains.               *)
(***************************************************************************)
EXTENDS Integers, Sequences, FiniteSets, TLC

VARIABLES
    aiResponse,            \* useState<AIParserResponse | null>
    editingItems,          \* useState<Record<number, DraftPOItem>>
    clarificationAnswers,  \* useState<Record<string, string | number | boolean>>
    activeQuestionDetails, \* useState<{id, type, relatedItemIndexes} | null>
    chatReq,               \* the chatMutation / clarifyDraftMutation request in flight
    answeredEver,          \* history: question ids answered in an earlier round of this draft
    productReq,            \* the createProductMutation request in flight
    priceListRows,         \* storage: price_list_rows
    catalog,               \* storage: suppliers and business_rules, and the writes made
    purchaseOrders,        \* storage: purchase_orders (set of header rows)
    poItems,               \* storage: po_items (set of item rows)
    post,                  \* the POST /api/purchase-orders handler in flight
    postCount,             \* POST /api/purchase-orders requests received so far
    overtaken              \* requests of the page still in flight when it sent the next one

vars == <<aiResponse, editingItems, clarificationAnswers, activeQuestionDetails,
          chatReq, answeredEver, productReq, priceListRows, catalog, purchaseOrders,
          poItems, post, postCount, overtaken>>

clientVars == <<aiResponse, editingItems, clarificationAnswers, activeQuestionDetails>>
storeVars  == <<purchaseOrders, poItems, postCount>>

----------------------------------------------------------------------------
(* Bounds of the model *)

MaxItems == 2      \* items in a draft
MaxQ == 2          \* question ids q1..qMaxQ
MaxOrders == 1     \* POST /api/purchase-orders requests in one behaviour
MaxEditing == 1    \* items in edit mode at the same time
MaxProducts == 1   \* products created from the dialog in one behaviour

----------------------------------------------------------------------------
(* JavaScript values *)

NullNum == 0 - 1
UndefNum == 0 - 2
NullStr == "<null>"
UndefStr == "<undefined>"

\* String.prototype.trim over the strings of the model
Trim(s) == IF s = " " THEN "" ELSE s

\* truthiness of a string-or-null value
Truthy(s) == s # NullStr /\ s # UndefStr /\ s # ""

\* a ?? b
Coalesce(a, b) == IF a = NullNum \/ a = UndefNum THEN b ELSE a
CoalesceStr(a, b) == IF a = NullStr \/ a = UndefStr THEN b ELSE a

Max(a, b) == IF a >= b THEN a ELSE b

\* Number(x.toFixed(2)) for a money amount in thousandths: the nearest hundredth
\* (the amounts of the model never fall on a tie)
round2(x) == ((x + 5) \div 10) * 10

EmptyMap == [k \in {} |-> 0]

MapRemove(f, k) == [x \in DOMAIN f \ {k} |-> f[x]]
MapPut(f, k, v) == [x \in DOMAIN f \cup {k} |-> IF x = k THEN v ELSE f[x]]

SeqsUpTo(S, n) == UNION {[1..k -> S] : k \in 0..n}

----------------------------------------------------------------------------
(* Data model: shared/schema.ts *)

DraftPOItem(sku, qty, price, total, conf, unc) ==
    [sku |-> sku, product_name |-> "P", unit_type |-> "box", quantity |-> qty,
     unit_price |-> price, line_total |-> total, ai_confidence |-> conf,
     ai_uncertain_fields |-> unc]

AIQuestion(id, kw, rel) == [id |-> id, question |-> kw, related_item_indexes |-> rel]

NoDraft == [present |-> FALSE, supplier_name |-> "", items |-> <<>>, questions |-> <<>>]

AIParserResponse(supplier, items, questions) ==
    [present |-> TRUE, supplier_name |-> supplier, items |-> items, questions |-> questions]

QIds == 1..MaxQ

ids(questions) == {questions[k].id : k \in DOMAIN questions}

\* an answer value: a number or a string (the other component is null)
NumAnswer(n) == [num |-> n, str |-> NullStr]
StrAnswer(s) == [num |-> NullNum, str |-> s]

----------------------------------------------------------------------------
(* Question classification: suppliers.tsx detectQuestionType *)

detectQuestionType(question) ==
    IF "sku" \in question \/ "product code" \in question THEN "sku"
    ELSE IF "price" \in question \/ "cost" \in question THEN "price"
    ELSE IF "quantity" \in question \/ "how many" \in question THEN "quantity"
    ELSE IF "which" \in question \/ "select" \in question \/ "choose" \in question
         THEN "selection"
    ELSE "text"

----------------------------------------------------------------------------
(* The reasoning engine: its output is any response of the JSON shape.     *)

\* items the engine puts in a draft during clarification rounds
LowItem  == DraftPOItem("A1", 1, 1254, NullNum, 50, {"sku", "price"})
HighItem == DraftPOItem("A1", 1, 1254, NullNum, 93, {})
MergeItems == {LowItem, HighItem}

\* the question the engine asks under id n: odd ids ask for a SKU of item 0,
\* even ids ask for the price of items 0 and 1
EngineQuestion(n) ==
    IF n % 2 = 1 THEN AIQuestion(n, {"which", "sku"}, <<0>>)
    ELSE AIQuestion(n, {"price"}, <<0, 1>>)

RECURSIVE QuestionList(_, _)
\* the questions with ids in S, by increasing id, starting at id n
QuestionList(S, n) ==
    IF n > MaxQ THEN <<>>
    ELSE IF n \in S THEN <<EngineQuestion(n)>> \o QuestionList(S, n + 1)
    ELSE QuestionList(S, n + 1)

EngineResponses ==
    {AIParserResponse("S1", its, QuestionList(S, 1)) :
        its \in SeqsUpTo(MergeItems, MaxItems), S \in SUBSET QIds}

AnswerMaps == UNION {[S -> {StrAnswer("A1")}] : S \in SUBSET QIds}

\* the engine rewords an open price question under its old id
RephrasedQuestion(q) ==
    IF q.question = {"price"} THEN [q EXCEPT !.question = {"cost"}] ELSE q

Rephrased(questions) == [k \in DOMAIN questions |-> RephrasedQuestion(questions[k])]

\* what the engine returns in a clarification round
MergeResponses ==
    EngineResponses
    \cup {[r EXCEPT !.questions = Rephrased(r.questions)] : r \in EngineResponses}

\* what the engine returns for a new request: it may also use a SKU that is in
\* nobody's price list
FabricatedItem == [HighItem EXCEPT !.sku = "ZZ"]
GenerationResponses ==
    EngineResponses \cup {AIParserResponse("S1", <<FabricatedItem>>, <<>>)}

----------------------------------------------------------------------------
(* server/ai-parser.ts: credentials, the upstream call and its failures     *)

\* process.env at the time of the call
Envs == {[key |-> k, baseUrl |-> u] : k \in BOOLEAN, u \in BOOLEAN}

\* error.status and error.code of a failed openai.chat.completions.create
ErrorStatuses == {0, 401, 429, 503}
ErrorCodes == {"none", "invalid_api_key", "rate_limit_exceeded", "service_unavailable",
               "ECONNREFUSED", "ETIMEDOUT"}

\* the keys a parsed engine output has: all, no questions_for_user, no draft_po,
\* or none of them ({})
Shapes == {"full", "no_questions", "no_draft_po", "empty_object"}

GoodEnv == [key |-> TRUE, baseUrl |-> TRUE]

NoOutcome == [kind |-> "none", status |-> 0, code |-> "none", shape |-> "full",
              data |-> NoDraft]

EmptyResponse == AIParserResponse("", <<>>, <<>>)

\* the upstream call returns text that parses as a response of the JSON shape
Answered(responses) == {[NoOutcome EXCEPT !.kind = "json", !.data = d] : d \in responses}

\* the outcomes of one upstream call, given the well-formed outputs it may return
EngineOutcomes(responses) ==
    {[NoOutcome EXCEPT !.kind = "error", !.status = st, !.code = c] :
        st \in ErrorStatuses, c \in ErrorCodes}
    \cup {[NoOutcome EXCEPT !.kind = "empty"], [NoOutcome EXCEPT !.kind = "unparsable"]}
    \cup Answered(responses)
    \cup {[NoOutcome EXCEPT !.kind = "json", !.shape = sh, !.data = EmptyResponse] :
             sh \in Shapes \ {"full"}}

NoError == [thrown |-> FALSE, statusCode |-> 0, errorType |-> UndefStr,
            missingCredential |-> UndefStr]

AIParserError(statusCode, errorType, missingCredential) ==
    [thrown |-> TRUE, statusCode |-> statusCode, errorType |-> errorType,
     missingCredential |-> missingCredential]

checkOpenAICredentials(env) ==
    IF ~env.key THEN AIParserError(503, UndefStr, "AI_INTEGRATIONS_OPENAI_API_KEY")
    ELSE IF ~env.baseUrl
    THEN AIParserError(503, UndefStr, "AI_INTEGRATIONS_OPENAI_BASE_URL")
    ELSE NoError

\* mutant: the rate limit is looked for before the authentication failure
upstreamErrorRateFirst(status, code) ==
    IF status = 429 \/ code = "rate_limit_exceeded"
    THEN AIParserError(503, "rate_limit", UndefStr)
    ELSE IF status = 401 \/ code = "invalid_api_key"
    THEN AIParserError(503, "authentication", UndefStr)
    ELSE IF status = 503 \/ code = "service_unavailable"
    THEN AIParserError(503, "service_unavailable", UndefStr)
    ELSE IF code \in {"ENOTFOUND", "ECONNREFUSED", "ETIMEDOUT"}
    THEN AIParserError(503, "network", UndefStr)
    ELSE AIParserError(500, "unknown", UndefStr)

\* the catch block around openai.chat.completions.create
upstreamError(status, code) ==
    IF status = 401 \/ code = "invalid_api_key"
    THEN AIParserError(503, "authentication", UndefStr)
    ELSE IF status = 429 \/ code = "rate_limit_exceeded"
    THEN AIParserError(503, "rate_limit", UndefStr)
    ELSE IF status = 503 \/ code = "service_unavailable"
    THEN AIParserError(503, "service_unavailable", UndefStr)
    ELSE IF code \in {"ENOTFOUND", "ECONNREFUSED", "ETIMEDOUT"}
    THEN AIParserError(503, "network", UndefStr)
    ELSE AIParserError(500, "unknown", UndefStr)

\* the AIParserError generateDraftPO and regeneratePOWithClarifications throw for
\* an environment and an outcome of the upstream call, NoError if they return
engineError(env, outcome) ==
    IF checkOpenAICredentials(env).thrown THEN checkOpenAICredentials(env)
    ELSE IF outcome.kind = "error" THEN upstreamError(outcome.status, outcome.code)
    ELSE IF outcome.kind = "empty" THEN AIParserError(500, "empty_response", UndefStr)
    ELSE IF outcome.kind = "unparsable"
    THEN AIParserError(500, "json_parse_error", UndefStr)
    ELSE NoError

\* no upstream call is made without credentials
OutcomeUnder(env, outcome) ==
    IF checkOpenAICredentials(env).thrown THEN NoOutcome ELSE outcome

----------------------------------------------------------------------------
(* server/ai-parser.ts regeneratePOWithClarifications: `data` is the parsed *)
(* engine output; answered questions are filtered out of it.               *)

answeredIds(answers) == DOMAIN answers

\* mutant: the safety post-processing is left out
regeneratePOUnfiltered(previousDraft, answers, data) == data

\* mutant: the filter is applied by the first call only, a call that follows a
\* returned one leaves the engine output as it is
regeneratePOFirstCallOnly(previousDraft, answers, data) ==
    IF chatReq.pc = "replied" THEN data
    ELSE [data EXCEPT !.questions =
             SelectSeq(data.questions, LAMBDA q : q.id \notin answeredIds(answers))]

regeneratePOWithClarifications(previousDraft, answers, data) ==
    [data EXCEPT !.questions =
        SelectSeq(data.questions, LAMBDA q : q.id \notin answeredIds(answers))]

----------------------------------------------------------------------------
(* Requests in flight *)

\* what a handler has read of the catalog so far (reads: how many of the three
\* reads are done), and history: the catalog states since the handler started
NoSnapshot == [reads |-> 0, suppliers |-> {}, priceRows |-> {}, companyAddress |-> "",
               states |-> <<>>]

\* one request to /api/chat, /api/ai/clarify-draft-po or /api/ai/generate-draft-po:
\* what was sent, what the engine function threw (error), what the handler did
\* (catalogRead, engineCalled) and what it answered (status, errorType, shape,
\* result); env and outcome are kept for a call of the engine function itself,
\* message is the set of keywords the chat message contains, branch the branch
\* of the chat handler that answered;
\* again is the result of a repeated call, snap the catalog as the handler read it
NoChatReq == [pc |-> "idle", route |-> "none", via |-> "page", message |-> {},
              branch |-> "none", hasAnswers |-> FALSE,
              previousDraft |-> NoDraft, answers |-> EmptyMap,
              env |-> GoodEnv, outcome |-> NoOutcome,
              catalogRead |-> FALSE, engineCalled |-> FALSE, error |-> NoError,
              status |-> 0, errorType |-> UndefStr, shape |-> "full",
              data |-> NoDraft, result |-> NoDraft, again |-> NoDraft,
              snap |-> NoSnapshot]

\* suppliers.tsx allQuestionsAnswered
allQuestionsAnswered ==
    IF ~aiResponse.present \/ Len(aiResponse.questions) = 0 THEN TRUE
    ELSE \A k \in DOMAIN aiResponse.questions :
            /\ aiResponse.questions[k].id \in DOMAIN clarificationAnswers
            /\ clarificationAnswers[aiResponse.questions[k].id] # StrAnswer("")

\* suppliers.tsx handleClarificationAnswer: null, "" and NaN clear the answer
handleClarificationAnswer(answers, questionId, value) ==
    IF value = StrAnswer(NullStr) \/ value = StrAnswer("") \/ value = NumAnswer(NullNum)
    THEN MapRemove(answers, questionId)
    ELSE MapPut(answers, questionId, value)

\* the user types or clears the answer of a question of the current draft
HandleClarificationAnswer ==
    /\ chatReq.pc = "idle"
    /\ aiResponse.present
    /\ \E k \in DOMAIN aiResponse.questions, v \in {StrAnswer("A1"), StrAnswer("")} :
          clarificationAnswers' =
              handleClarificationAnswer(clarificationAnswers, aiResponse.questions[k].id, v)
    /\ UNCHANGED <<aiResponse, editingItems, activeQuestionDetails, chatReq, answeredEver,
                   productReq, priceListRows, catalog, purchaseOrders, poItems, post,
                   postCount, overtaken>>

\* the keywords POST /api/chat looks for in a message: none, one half of the
\* history pair, the pair, the address keyword, and all of them
Messages ==
    {{}, {"last"}, {"last", "purchase order"}, {"address"},
     {"last", "purchase order", "address"}}

\* suppliers.tsx handleContinueDraft: chatMutation.mutate({message, answers})
HandleContinueDraft ==
    /\ chatReq.pc = "idle"
    /\ aiResponse.present
    /\ Len(aiResponse.questions) > 0
    /\ allQuestionsAnswered
    /\ chatReq' = [NoChatReq EXCEPT !.pc = "sent", !.route = "chat", !.hasAnswers = TRUE,
                                    !.previousDraft = aiResponse,
                                    !.answers = clarificationAnswers]
    /\ UNCHANGED <<clientVars, answeredEver, productReq, priceListRows, catalog, purchaseOrders,
                   poItems, post, postCount, overtaken>>

\* suppliers.tsx handleSendMessage with a message that is not a save command:
\* chatMutation.mutate({message}), no answers
HandleSendMessage ==
    /\ chatReq.pc = "idle"
    /\ \E m \in Messages :
          chatReq' = [NoChatReq EXCEPT !.pc = "sent", !.route = "chat", !.message = m,
                                       !.previousDraft = aiResponse]
    /\ UNCHANGED <<clientVars, answeredEver, productReq, priceListRows, catalog, purchaseOrders,
                   poItems, post, postCount, overtaken>>

\* a caller of POST /api/ai/clarify-draft-po that holds the draft sends any answers map
ClarifyDraftMutate ==
    /\ chatReq.pc = "idle"
    /\ aiResponse.present
    /\ \E A \in AnswerMaps :
          chatReq' = [NoChatReq EXCEPT !.pc = "sent", !.route = "clarify",
                                       !.hasAnswers = TRUE,
                                       !.previousDraft = aiResponse, !.answers = A]
    /\ UNCHANGED <<clientVars, answeredEver, productReq, priceListRows, catalog, purchaseOrders,
                   poItems, post, postCount, overtaken>>

\* a caller of POST /api/chat other than the page sends a draft and any answers map
DirectChat ==
    /\ chatReq.pc = "idle"
    /\ aiResponse.present
    /\ \E A \in AnswerMaps, m \in Messages :
          chatReq' = [NoChatReq EXCEPT !.pc = "sent", !.route = "chat", !.via = "direct",
                                       !.message = m, !.hasAnswers = TRUE,
                                       !.previousDraft = aiResponse, !.answers = A]
    /\ UNCHANGED <<clientVars, answeredEver, productReq, priceListRows, catalog, purchaseOrders,
                   poItems, post, postCount, overtaken>>

\* generateDraftMutation.mutate (the form-based page): POST /api/ai/generate-draft-po
GenerateDraftMutate ==
    /\ chatReq.pc = "idle"
    /\ chatReq' = [NoChatReq EXCEPT !.pc = "sent", !.route = "generate"]
    /\ UNCHANGED <<clientVars, answeredEver, productReq, priceListRows, catalog, purchaseOrders,
                   poItems, post, postCount, overtaken>>

\* an answers map the clarify route examines and refuses
BadAnswers(req) ==
    \/ DOMAIN req.answers = {}
    \/ DOMAIN req.answers \ ids(req.previousDraft.questions) # {}

\* the rest of a handler once the engine function has been called: `generic` says
\* whether the catch block hides an AIParserError behind a plain 500, `reads` which
\* keys of the result the handler reads before it answers
AfterEngine(req, env, outcome, merge, generic, reads) ==
    LET err == engineError(env, outcome)
        called == [req EXCEPT !.catalogRead = TRUE, !.engineCalled = TRUE,
                              !.data = outcome.data]
        typeError == \/ "questions_for_user" \in reads
                        /\ outcome.shape \in {"no_questions", "empty_object"}
                     \/ "draft_po" \in reads
                        /\ outcome.shape \in {"no_draft_po", "empty_object"}
    IN IF err.thrown
       THEN [called EXCEPT !.pc = "failed", !.error = err,
                           !.status = IF generic THEN 500 ELSE err.statusCode,
                           !.errorType = IF generic THEN UndefStr ELSE err.errorType]
       ELSE IF typeError
       THEN [called EXCEPT !.pc = "failed", !.status = 500]
       ELSE [called EXCEPT !.pc = "replied", !.status = 200, !.shape = outcome.shape,
                           !.result = IF merge
                                      THEN regeneratePOWithClarifications(
                                               req.previousDraft, req.answers, outcome.data)
                                      ELSE outcome.data]

\* POST /api/chat: the branch the handler takes. The two keyword tests come
\* first, then the merge if context has answers and a draft, else the generation
dispatch(req) ==
    IF "last" \in req.message /\ "purchase order" \in req.message THEN "history"
    ELSE IF "address" \in req.message THEN "address"
    ELSE IF req.hasAnswers /\ req.previousDraft.present THEN "merge"
    ELSE "generate"

\* POST /api/chat. The history branch answers with updatedDraft: the draft sent
\* (or null), the address branch without updatedDraft; the others read the
\* catalog and call the engine.
\* clarificationAnswersSchema is not in the sources at hand: schemaAccepts is its
\* verdict on an answers map the clarify route would refuse
chatHandler(req, env, outcome, schemaAccepts) ==
    LET to == [req EXCEPT !.branch = dispatch(req)] IN
    CASE to.branch = "history" ->
            [to EXCEPT !.pc = "replied", !.status = 200, !.result = req.previousDraft]
      [] to.branch = "address" ->
            [to EXCEPT !.pc = "replied", !.status = 200]
      [] to.branch = "merge" ->
            IF BadAnswers(req) /\ ~schemaAccepts
            THEN [to EXCEPT !.pc = "rejected", !.status = 400, !.catalogRead = TRUE]
            ELSE AfterEngine(to, env, outcome, TRUE, TRUE, {"questions_for_user"})
      [] OTHER ->
            AfterEngine(to, env, outcome, FALSE, TRUE, {"draft_po", "questions_for_user"})

\* the address branch: storage.updateBusinessRule("company_address", address)
chatCatalog(req, cat) ==
    IF dispatch(req) = "address" THEN [cat EXCEPT !.companyAddress = "addr2"] ELSE cat

\* the handler runs once, under one environment and one engine outcome
PostChatUnder(envs, outcomes) ==
    /\ chatReq.pc = "sent"
    /\ chatReq.route = "chat"
    /\ \E env \in envs, schemaAccepts \in BOOLEAN, o \in outcomes :
          chatReq' = chatHandler(chatReq, env, OutcomeUnder(env, o), schemaAccepts)
    /\ catalog' = chatCatalog(chatReq, catalog)
    /\ UNCHANGED <<clientVars, answeredEver, productReq, priceListRows, purchaseOrders,
                   poItems, post, postCount, overtaken>>

PostChat ==
    PostChatUnder(Envs, EngineOutcomes(IF chatReq.hasAnswers /\ chatReq.previousDraft.present
                                       THEN MergeResponses ELSE GenerationResponses))

\* POST /api/chat while the engine is reachable and answers in the JSON shape
PostChatAnswered == PostChatUnder({GoodEnv}, Answered(EngineResponses))

\* POST /api/ai/clarify-draft-po: empty maps and unknown keys are answered 400
clarifyHandler(req, env, outcome) ==
    IF BadAnswers(req)
    THEN [req EXCEPT !.pc = "rejected", !.status = 400]
    ELSE AfterEngine(req, env, outcome, TRUE, FALSE, {})

PostClarifyDraftPOUnder(envs, outcomes) ==
    /\ chatReq.pc = "sent"
    /\ chatReq.route = "clarify"
    /\ \E env \in envs, o \in outcomes :
          chatReq' = clarifyHandler(chatReq, env, OutcomeUnder(env, o))
    /\ UNCHANGED <<clientVars, answeredEver, productReq, priceListRows, catalog, purchaseOrders,
                   poItems, post, postCount, overtaken>>

PostClarifyDraftPO == PostClarifyDraftPOUnder(Envs, EngineOutcomes(MergeResponses))

\* POST /api/ai/clarify-draft-po while the engine is reachable and answers in the
\* JSON shape
PostClarifyDraftPOAnswered == PostClarifyDraftPOUnder({GoodEnv}, Answered(EngineResponses))

\* POST /api/ai/generate-draft-po
PostGenerateDraftPO ==
    /\ chatReq.pc = "sent"
    /\ chatReq.route = "generate"
    /\ \E env \in Envs, o \in EngineOutcomes(GenerationResponses) :
          chatReq' = AfterEngine(chatReq, env, OutcomeUnder(env, o), FALSE, FALSE, {})
    /\ UNCHANGED <<clientVars, answeredEver, productReq, priceListRows, catalog, purchaseOrders,
                   poItems, post, postCount, overtaken>>

\* chatMutation.onSuccess: if (data.updatedDraft) the draft is set and the item
\* edits and the answers are cleared
ChatOnSuccess ==
    /\ chatReq.pc = "replied"
    /\ chatReq.route = "chat"
    /\ chatReq.via = "page"
    /\ chatReq.shape = "full"
    /\ IF chatReq.result.present
       THEN /\ aiResponse' = chatReq.result
            /\ editingItems' = EmptyMap
            /\ clarificationAnswers' = EmptyMap
       ELSE UNCHANGED <<aiResponse, editingItems, clarificationAnswers>>
    /\ answeredEver' = CASE chatReq.branch = "merge" ->
                                answeredEver \cup DOMAIN chatReq.answers
                          [] chatReq.branch = "generate" -> {}
                          [] OTHER -> answeredEver
    /\ chatReq' = NoChatReq
    /\ UNCHANGED <<activeQuestionDetails, productReq, priceListRows, catalog, purchaseOrders,
                   poItems, post, postCount, overtaken>>

\* clarifyDraftMutation.onSuccess (the form-based page): editingItems is kept
ClarifyOnSuccess ==
    /\ chatReq.pc = "replied"
    /\ chatReq.route = "clarify"
    /\ chatReq.shape = "full"
    /\ aiResponse' = chatReq.result
    /\ clarificationAnswers' = EmptyMap
    /\ answeredEver' = answeredEver \cup DOMAIN chatReq.answers
    /\ chatReq' = NoChatReq
    /\ UNCHANGED <<editingItems, activeQuestionDetails, productReq, priceListRows, catalog,
                   purchaseOrders, poItems, post, postCount, overtaken>>

\* generateDraftMutation.onSuccess (the form-based page)
GenerateOnSuccess ==
    /\ chatReq.pc = "replied"
    /\ chatReq.route = "generate"
    /\ chatReq.shape = "full"
    /\ aiResponse' = chatReq.result
    /\ clarificationAnswers' = EmptyMap
    /\ answeredEver' = {}
    /\ chatReq' = NoChatReq
    /\ UNCHANGED <<editingItems, activeQuestionDetails, productReq, priceListRows, catalog,
                   purchaseOrders, poItems, post, postCount, overtaken>>

\* clarifyDraftMutation.onError / generateDraftMutation.onError: a toast, the
\* session is unchanged
ClarifyOnError ==
    /\ chatReq.pc \in {"rejected", "failed"}
    /\ chatReq.route \in {"clarify", "generate"}
    /\ chatReq' = NoChatReq
    /\ UNCHANGED <<clientVars, answeredEver, productReq, priceListRows, catalog, purchaseOrders,
                   poItems, post, postCount, overtaken>>

\* chatMutation.onError: a toast, the session is unchanged
ChatOnError ==
    /\ chatReq.pc \in {"rejected", "failed"}
    /\ chatReq.route = "chat"
    /\ chatReq.via = "page"
    /\ chatReq' = NoChatReq
    /\ UNCHANGED <<clientVars, answeredEver, productReq, priceListRows, catalog, purchaseOrders,
                   poItems, post, postCount, overtaken>>

\* the other caller of /api/chat has read its response
DirectChatDone ==
    /\ chatReq.pc \in {"replied", "rejected", "failed"}
    /\ chatReq.via = "direct"
    /\ chatReq' = NoChatReq
    /\ UNCHANGED <<clientVars, answeredEver, productReq, priceListRows, catalog, purchaseOrders,
                   poItems, post, postCount, overtaken>>

----------------------------------------------------------------------------
(* Initial values shared by the specifications *)

\* newProductForm's defaultValues
DefaultProductForm == [sku |-> "", productName |-> "", unitType |-> "unit", unitPrice |-> 0]
\* isCreateProductOpen, newProductForm's values, and createProductMutation: its
\* status, its variables and (history) the number of submissions and the question
\* the dialog was opened from when the form was submitted
NoProductReq == [open |-> FALSE, form |-> DefaultProductForm, pc |-> "idle",
                 submitted |-> 0, variables |-> DefaultProductForm,
                 from |-> [present |-> FALSE, id |-> 0, type |-> "text",
                           relatedItemIndexes |-> <<>>]]
NoActiveQuestion == [present |-> FALSE, id |-> 0, type |-> "text",
                     relatedItemIndexes |-> <<>>]
NoBody == [supplier_name |-> "", itemsKind |-> "absent", items |-> <<>>]
NoPost == [pc |-> "idle", via |-> "none", body |-> NoBody, validated |-> <<>>,
           poId |-> 0, created |-> 0, status |-> 0, itemIndex |-> NullNum,
           fields |-> {}]
NoRead == [found |-> FALSE, poId |-> 0, items |-> {}]

\* the price list of supplier S1 holds the SKU A1
SeedPriceRows == {[supplierName |-> "S1", sku |-> "A1", unitType |-> "box",
                   unitPrice |-> 1254]}

\* no request has been overtaken
NoOvertaken == [chat |-> NoChatReq, post |-> NoPost]

\* the supplier S1 and one delivery address; no catalog write made yet
SeedCatalog == [suppliers |-> {"S1"}, companyAddress |-> "addr1", writes |-> 0]

InitRest ==
    /\ editingItems = EmptyMap
    /\ clarificationAnswers = EmptyMap
    /\ activeQuestionDetails = NoActiveQuestion
    /\ chatReq = NoChatReq
    /\ answeredEver = {}
    /\ productReq = NoProductReq
    /\ priceListRows = SeedPriceRows
    /\ catalog = SeedCatalog
    /\ purchaseOrders = {}
    /\ poItems = {}
    /\ post = NoPost
    /\ postCount = 0
    /\ overtaken = NoOvertaken

----------------------------------------------------------------------------
(* SpecMerge: clarification rounds on one generated draft, the engine answering *)

InitMerge ==
    /\ aiResponse \in EngineResponses
    /\ InitRest

NextMerge ==
    \/ HandleClarificationAnswer
    \/ HandleContinueDraft
    \/ ClarifyDraftMutate
    \/ PostChatAnswered
    \/ PostClarifyDraftPOAnswered
    \/ ChatOnSuccess
    \/ ClarifyOnSuccess
    \/ ClarifyOnError

SpecMerge == InitMerge /\ [][NextMerge]_vars

----------------------------------------------------------------------------
(* SpecService: generation and clarification over the three routes, the     *)
(* engine failing, answering in the JSON shape or answering other JSON      *)

InitService ==
    /\ aiResponse = NoDraft
    /\ InitRest

NextService ==
    \/ HandleSendMessage
    \/ GenerateDraftMutate
    \/ HandleClarificationAnswer
    \/ HandleContinueDraft
    \/ ClarifyDraftMutate
    \/ DirectChat
    \/ PostChat
    \/ PostClarifyDraftPO
    \/ PostGenerateDraftPO
    \/ ChatOnSuccess
    \/ ClarifyOnSuccess
    \/ GenerateOnSuccess
    \/ ChatOnError
    \/ ClarifyOnError
    \/ DirectChatDone

SpecService == InitService /\ [][NextService]_vars

----------------------------------------------------------------------------
(* SpecEngine: calls of generateDraftPO and regeneratePOWithClarifications  *)
(* under every environment and upstream outcome                             *)

\* the prior drafts of the calls: every question open, at most one item
PriorDrafts ==
    {AIParserResponse("S1", its, QuestionList(QIds, 1)) : its \in SeqsUpTo(MergeItems, 1)}

\* the calls: the arguments, the environment and what the upstream call will do
EngineCalls ==
    {[NoChatReq EXCEPT !.pc = "sent", !.route = "engine", !.env = env,
                       !.outcome = OutcomeUnder(env, o)] :
        env \in Envs, o \in EngineOutcomes(GenerationResponses)}
    \cup {[NoChatReq EXCEPT !.pc = "sent", !.route = "engine", !.hasAnswers = TRUE,
                            !.previousDraft = p, !.answers = A, !.env = env,
                            !.outcome = OutcomeUnder(env, o)] :
             p \in PriorDrafts, A \in AnswerMaps, env \in Envs,
             o \in EngineOutcomes(MergeResponses)}

InitEngine ==
    /\ aiResponse = NoDraft
    /\ editingItems = EmptyMap
    /\ clarificationAnswers = EmptyMap
    /\ activeQuestionDetails = NoActiveQuestion
    /\ chatReq \in EngineCalls
    /\ answeredEver = {}
    /\ productReq = NoProductReq
    /\ priceListRows = SeedPriceRows
    /\ catalog = SeedCatalog
    /\ purchaseOrders = {}
    /\ poItems = {}
    /\ post = NoPost
    /\ postCount = 0
    /\ overtaken = NoOvertaken

\* generateDraftPO(userRequest, suppliers, priceLists, businessRules)
GenerateDraftPO ==
    /\ chatReq.pc = "sent"
    /\ chatReq.route = "engine"
    /\ ~chatReq.hasAnswers
    /\ chatReq' = AfterEngine(chatReq, chatReq.env, chatReq.outcome, FALSE, FALSE, {})
    /\ UNCHANGED <<clientVars, answeredEver, productReq, priceListRows, catalog, purchaseOrders,
                   poItems, post, postCount, overtaken>>

\* regeneratePOWithClarifications(userRequest, previousDraft, answers, ...)
RegeneratePO ==
    /\ chatReq.pc = "sent"
    /\ chatReq.route = "engine"
    /\ chatReq.hasAnswers
    /\ chatReq' = AfterEngine(chatReq, chatReq.env, chatReq.outcome, TRUE, FALSE, {})
    /\ UNCHANGED <<clientVars, answeredEver, productReq, priceListRows, catalog, purchaseOrders,
                   poItems, post, postCount, overtaken>>

\* the same call once more, the upstream call returning the same text
RegeneratePOAgain ==
    /\ chatReq.pc = "replied"
    /\ chatReq.route = "engine"
    /\ chatReq.hasAnswers
    /\ chatReq' = [chatReq EXCEPT
                      !.pc = "repeated",
                      !.again = AfterEngine(chatReq, chatReq.env, chatReq.outcome,
                                            TRUE, FALSE, {}).result]
    /\ UNCHANGED <<clientVars, answeredEver, productReq, priceListRows, catalog, purchaseOrders,
                   poItems, post, postCount, overtaken>>

NextEngine ==
    \/ GenerateDraftPO
    \/ RegeneratePO
    \/ RegeneratePOAgain

SpecEngine == InitEngine /\ [][NextEngine]_vars

----------------------------------------------------------------------------
(* SpecSnapshot: the three catalog reads of a handler, one await each, and  *)
(* the catalog writes of other requests between them                        *)

MaxWrites == 2

\* the catalog as the three tables hold it
CatalogState(rows, cat) ==
    [suppliers |-> cat.suppliers, priceRows |-> rows,
     companyAddress |-> cat.companyAddress]

\* history: a write made while a handler is between its reads is noted
Witnessed(req, rows, cat) ==
    IF req.pc = "reading"
    THEN [req EXCEPT !.snap.states = Append(@, CatalogState(rows, cat))]
    ELSE req

\* POST /api/suppliers: storage.createSupplier
CreateSupplier ==
    /\ catalog.writes < MaxWrites
    /\ "S2" \notin catalog.suppliers
    /\ catalog' = [catalog EXCEPT !.suppliers = @ \cup {"S2"}, !.writes = @ + 1]
    /\ chatReq' = Witnessed(chatReq, priceListRows, catalog')
    /\ UNCHANGED <<clientVars, answeredEver, productReq, priceListRows, purchaseOrders,
                   poItems, post, postCount, overtaken>>

\* POST /api/price-lists of another client: storage.createPriceListRow for a
\* supplier of the suppliers table (supplier_id references suppliers.id)
CreatePriceListRow ==
    /\ catalog.writes < MaxWrites
    /\ \E s \in catalog.suppliers :
          LET row == [supplierName |-> s, sku |-> "B1", unitType |-> "box",
                      unitPrice |-> 2000]
          IN /\ row \notin priceListRows
             /\ priceListRows' = priceListRows \cup {row}
    /\ catalog' = [catalog EXCEPT !.writes = @ + 1]
    /\ chatReq' = Witnessed(chatReq, priceListRows', catalog')
    /\ UNCHANGED <<clientVars, answeredEver, productReq, purchaseOrders, poItems, post,
                   postCount, overtaken>>

\* storage.updateBusinessRule("company_address", value) of another request
UpdateBusinessRule ==
    /\ catalog.writes < MaxWrites
    /\ \E a \in {"addr1", "addr2"} \ {catalog.companyAddress} :
          catalog' = [catalog EXCEPT !.companyAddress = a, !.writes = @ + 1]
    /\ chatReq' = Witnessed(chatReq, priceListRows, catalog')
    /\ UNCHANGED <<clientVars, answeredEver, productReq, priceListRows, purchaseOrders,
                   poItems, post, postCount, overtaken>>

\* a caller of POST /api/ai/generate-draft-po other than the page
DirectGenerate ==
    /\ chatReq.pc = "idle"
    /\ chatReq' = [NoChatReq EXCEPT !.pc = "sent", !.route = "generate", !.via = "direct"]
    /\ UNCHANGED <<clientVars, answeredEver, productReq, priceListRows, catalog,
                   purchaseOrders, poItems, post, postCount, overtaken>>

\* POST /api/chat for a message with a keyword: the handler answers before the
\* catalog reads
ChatKeywordBranch ==
    /\ chatReq.pc = "sent"
    /\ chatReq.route = "chat"
    /\ dispatch(chatReq) \in {"history", "address"}
    /\ chatReq' = chatHandler(chatReq, GoodEnv, NoOutcome, TRUE)
    /\ catalog' = chatCatalog(chatReq, catalog)
    /\ UNCHANGED <<clientVars, answeredEver, productReq, priceListRows, purchaseOrders,
                   poItems, post, postCount, overtaken>>

\* const suppliers = await storage.getSuppliers()
ReadSuppliers ==
    /\ chatReq.pc = "sent"
    /\ chatReq.route \in {"chat", "generate"}
    /\ chatReq.route = "chat" => dispatch(chatReq) \in {"merge", "generate"}
    /\ chatReq' = [chatReq EXCEPT
                      !.pc = "reading",
                      !.snap = [NoSnapshot EXCEPT
                                   !.reads = 1,
                                   !.suppliers = catalog.suppliers,
                                   !.states = <<CatalogState(priceListRows, catalog)>>]]
    /\ UNCHANGED <<clientVars, answeredEver, productReq, priceListRows, catalog,
                   purchaseOrders, poItems, post, postCount, overtaken>>

\* const priceRows = await storage.getPriceListRows()
ReadPriceRows ==
    /\ chatReq.pc = "reading"
    /\ chatReq.snap.reads = 1
    /\ chatReq' = [chatReq EXCEPT !.snap.reads = 2, !.snap.priceRows = priceListRows]
    /\ UNCHANGED <<clientVars, answeredEver, productReq, priceListRows, catalog,
                   purchaseOrders, poItems, post, postCount, overtaken>>

\* const businessRulesArray = await storage.getBusinessRules()
ReadBusinessRules ==
    /\ chatReq.pc = "reading"
    /\ chatReq.snap.reads = 2
    /\ chatReq' = [chatReq EXCEPT !.snap.reads = 3,
                                  !.snap.companyAddress = catalog.companyAddress]
    /\ UNCHANGED <<clientVars, answeredEver, productReq, priceListRows, catalog,
                   purchaseOrders, poItems, post, postCount, overtaken>>

\* the rest of the handler: the engine function is called with what was read
CallWithSnapshot ==
    /\ chatReq.pc = "reading"
    /\ chatReq.snap.reads = 3
    /\ \E env \in Envs, schemaAccepts \in BOOLEAN, o \in EngineOutcomes({aiResponse}) :
          chatReq' = IF chatReq.route = "chat"
                     THEN chatHandler(chatReq, env, OutcomeUnder(env, o), schemaAccepts)
                     ELSE AfterEngine(chatReq, env, OutcomeUnder(env, o), FALSE, FALSE, {})
    /\ UNCHANGED <<clientVars, answeredEver, productReq, priceListRows, catalog,
                   purchaseOrders, poItems, post, postCount, overtaken>>

InitSnapshot ==
    /\ aiResponse \in {AIParserResponse("S1", <<it>>, QuestionList(QIds, 1)) :
                          it \in MergeItems}
    /\ InitRest

NextSnapshot ==
    \/ CreateSupplier
    \/ CreatePriceListRow
    \/ UpdateBusinessRule
    \/ DirectGenerate
    \/ DirectChat
    \/ ChatKeywordBranch
    \/ ReadSuppliers
    \/ ReadPriceRows
    \/ ReadBusinessRules
    \/ CallWithSnapshot
    \/ DirectChatDone

SpecSnapshot == InitSnapshot /\ [][NextSnapshot]_vars

----------------------------------------------------------------------------
(* The commit gate on the client: suppliers.tsx currentItems / canSaveDraft *)

\* mutant: the edit copies are ignored
currentItemsOfDraft == aiResponse.items

currentItems ==
    IF ~aiResponse.present THEN <<>>
    ELSE [k \in DOMAIN aiResponse.items |->
            IF (k - 1) \in DOMAIN editingItems THEN editingItems[k - 1]
            ELSE aiResponse.items[k]]

canSaveDraft ==
    IF ~aiResponse.present THEN FALSE
    ELSE IF ~Truthy(aiResponse.supplier_name) THEN FALSE
    ELSE IF Len(currentItems) = 0 THEN FALSE
    ELSE \A k \in DOMAIN currentItems :
            /\ Truthy(currentItems[k].sku) /\ Trim(currentItems[k].sku) # ""
            /\ currentItems[k].quantity > 0
            /\ currentItems[k].unit_price # NullNum
            /\ currentItems[k].unit_price > 0

----------------------------------------------------------------------------
(* Item editing: suppliers.tsx startEditingItem .. updateEditingItem *)

\* the values the edit inputs hand to updateEditingItem: any string for the sku,
\* parseInt(..) || 0 for the quantity, parseFloat(..) || null for the unit price
EditValues == {<<"sku", "">>, <<"sku", "ZZ">>}
EditNumbers == {<<"quantity", 0>>, <<"unit_price", 1254>>}

StartEditingItem ==
    /\ post.pc = "idle"
    /\ aiResponse.present
    /\ \E k \in DOMAIN aiResponse.items :
          /\ (k - 1) \notin DOMAIN editingItems
          /\ Cardinality(DOMAIN editingItems) < MaxEditing
          /\ editingItems' = MapPut(editingItems, k - 1, aiResponse.items[k])
    /\ UNCHANGED <<aiResponse, clarificationAnswers, activeQuestionDetails, chatReq,
                   answeredEver, productReq, priceListRows, catalog, purchaseOrders,
                   poItems,
                   post, postCount, overtaken>>

\* the part of the page's state the item edit handlers work on
EditState == [aiResponse |-> aiResponse, editingItems |-> editingItems]

\* a save that writes the edit copy over the draft's item before removing it
saveEditedItemIntoDraft(state, index) ==
    [aiResponse |-> IF state.aiResponse.present /\ (index + 1) \in DOMAIN state.aiResponse.items
                    THEN [state.aiResponse EXCEPT !.items[index + 1] = state.editingItems[index]]
                    ELSE state.aiResponse,
     editingItems |-> MapRemove(state.editingItems, index)]

\* cancelEditingItem(index): the edit copy of the index is deleted
cancelEditingItem(state, index) ==
    [state EXCEPT !.editingItems = MapRemove(state.editingItems, index)]

\* saveEditedItem(index) is cancelEditingItem(index)
saveEditedItem(state, index) == cancelEditingItem(state, index)

CancelEditingItem ==
    /\ post.pc = "idle"
    /\ \E i \in DOMAIN editingItems :
          /\ aiResponse' = cancelEditingItem(EditState, i).aiResponse
          /\ editingItems' = cancelEditingItem(EditState, i).editingItems
    /\ UNCHANGED <<clarificationAnswers, activeQuestionDetails, chatReq,
                   answeredEver, productReq, priceListRows, catalog, purchaseOrders,
                   poItems,
                   post, postCount, overtaken>>

SaveEditedItem ==
    /\ post.pc = "idle"
    /\ \E i \in DOMAIN editingItems :
          /\ aiResponse' = saveEditedItem(EditState, i).aiResponse
          /\ editingItems' = saveEditedItem(EditState, i).editingItems
    /\ UNCHANGED <<clarificationAnswers, activeQuestionDetails, chatReq,
                   answeredEver, productReq, priceListRows, catalog, purchaseOrders,
                   poItems,
                   post, postCount, overtaken>>

UpdateEditingItem ==
    /\ post.pc = "idle"
    /\ \E i \in DOMAIN editingItems :
          \/ \E e \in EditValues :
                editingItems' = [editingItems EXCEPT ![i].sku = e[2]]
          \/ \E e \in EditNumbers :
                editingItems' =
                    IF e[1] = "quantity"
                    THEN [editingItems EXCEPT ![i].quantity = e[2]]
                    ELSE [editingItems EXCEPT ![i].unit_price = e[2]]
    /\ UNCHANGED <<aiResponse, clarificationAnswers, activeQuestionDetails, chatReq,
                   answeredEver, productReq, priceListRows, catalog, purchaseOrders,
                   poItems,
                   post, postCount, overtaken>>

----------------------------------------------------------------------------
(* POST /api/purchase-orders: request bodies *)

\* an item of a request body; the route reads unit_price and, failing that, unitPrice
RawItem(sku, qty, unit_price, unitPrice, total) ==
    [sku |-> sku, product_name |-> "P", unit_type |-> "box", quantity |-> qty,
     unit_price |-> unit_price, unitPrice |-> unitPrice, currency |-> "GBP",
     line_total |-> total]

\* savePOMutation.mutationFn: the body is the draft_po of the submitted draft
BodyOfDraft(supplier, items) ==
    [supplier_name |-> supplier, itemsKind |-> "array",
     items |-> [k \in DOMAIN items |->
                  RawItem(items[k].sku, items[k].quantity, items[k].unit_price,
                          UndefNum, items[k].line_total)]]

\* handleSavePO: the edit copies are merged into the draft and the totals recomputed
SavedItems ==
    [k \in DOMAIN aiResponse.items |->
        LET edited == IF (k - 1) \in DOMAIN editingItems THEN editingItems[k - 1]
                      ELSE aiResponse.items[k]
        IN IF edited.unit_price # NullNum
           THEN [edited EXCEPT !.line_total = round2(edited.unit_price * edited.quantity)]
           ELSE edited]

\* handleSavePO, from the Save button or a typed "save purchase order"
HandleSavePO ==
    /\ post.pc = "idle"
    /\ postCount < MaxOrders
    /\ aiResponse.present
    /\ canSaveDraft
    /\ aiResponse' = [aiResponse EXCEPT !.items = SavedItems]
    /\ postCount' = postCount + 1
    /\ post' = [NoPost EXCEPT !.pc = "received", !.via = "client",
                  !.poId = postCount + 1,
                  !.body = BodyOfDraft(aiResponse.supplier_name, SavedItems)]
    /\ UNCHANGED <<editingItems, clarificationAnswers, activeQuestionDetails, chatReq,
                   answeredEver, productReq, priceListRows, catalog, purchaseOrders,
                   poItems, overtaken>>

\* bodies sent to the route by a caller other than the page
DirectItems ==
    {RawItem("A1", 2, 1254, UndefNum, 999),         \* complete, stale total
     RawItem("A1", 2, 0, UndefNum, NullNum),        \* unit price 0
     RawItem("A1", 2, NullNum, UndefNum, NullNum)}  \* a draft item with unit_price null

DirectBodies ==
    {[supplier_name |-> "S1", itemsKind |-> "array", items |-> its] :
        its \in SeqsUpTo(DirectItems, MaxItems)}
    \cup {[supplier_name |-> "", itemsKind |-> "array",
           items |-> <<RawItem(" ", 2, 1254, UndefNum, 2510)>>],
          [supplier_name |-> "S1", itemsKind |-> "array",
           items |-> <<RawItem("A1", 2, UndefNum, NullNum, NullNum)>>],
          [supplier_name |-> UndefStr, itemsKind |-> "array", items |-> <<>>],
          [supplier_name |-> "S1", itemsKind |-> "absent", items |-> <<>>],
          [supplier_name |-> "S1", itemsKind |-> "other", items |-> <<>>]}

DirectPost ==
    /\ post.pc = "idle"
    /\ postCount < MaxOrders
    /\ ~aiResponse.present
    /\ \E b \in DirectBodies :
          post' = [NoPost EXCEPT !.pc = "received", !.via = "direct",
                     !.poId = postCount + 1, !.body = b]
    /\ postCount' = postCount + 1
    /\ UNCHANGED <<clientVars, chatReq, answeredEver, productReq, priceListRows, catalog,
                   purchaseOrders, poItems, overtaken>>

----------------------------------------------------------------------------
(* POST /api/purchase-orders: the handler (routes, part_004:374-448)       *)

\* mutant: a missing unit price is read as 0
NormalizeItemZeroPrice(item) ==
    [sku |-> CoalesceStr(item.sku, ""),
     productName |-> CoalesceStr(item.product_name, ""),
     unitType |-> CoalesceStr(item.unit_type, ""),
     quantity |-> item.quantity,
     unitPrice |-> Coalesce(Coalesce(item.unit_price, item.unitPrice), 0),
     currency |-> CoalesceStr(item.currency, ""),
     lineTotal |-> Coalesce(item.line_total, NullNum)]

\* normalizedItems
NormalizeItem(item) ==
    [sku |-> CoalesceStr(item.sku, ""),
     productName |-> CoalesceStr(item.product_name, ""),
     unitType |-> CoalesceStr(item.unit_type, ""),
     quantity |-> item.quantity,
     unitPrice |-> Coalesce(item.unit_price, item.unitPrice),
     currency |-> CoalesceStr(item.currency, ""),
     lineTotal |-> Coalesce(item.line_total, NullNum)]

\* z.coerce.number(): Number(null) is 0, Number(undefined) is NaN (no number)
CoerceNumber(x) == IF x = NullNum THEN 0 ELSE x

\* poItemValidationSchema: the paths of the issues of one normalized item
ItemIssues(n) ==
    {f \in {"sku", "productName", "unitType", "quantity", "unitPrice", "currency",
             "lineTotal"} :
        \/ f = "sku" /\ n.sku = ""
        \/ f = "productName" /\ n.productName = ""
        \/ f = "unitType" /\ n.unitType = ""
        \/ f = "quantity" /\ (n.quantity = UndefNum \/ CoerceNumber(n.quantity) <= 0)
        \/ f = "unitPrice" /\ (n.unitPrice = UndefNum \/ CoerceNumber(n.unitPrice) < 0)
        \/ f = "currency" /\ n.currency = ""
        \/ f = "lineTotal" /\ n.lineTotal # NullNum /\ n.lineTotal < 0}

\* the parsed item: coerced numbers; a null lineTotal is taken by the first member
\* of the union, z.coerce.number(), as 0
ParsedItem(n) ==
    [n EXCEPT !.quantity = CoerceNumber(n.quantity),
              !.unitPrice = CoerceNumber(n.unitPrice),
              !.lineTotal = CoerceNumber(n.lineTotal)]

normalizedItems(body) ==
    IF body.itemsKind = "array"
    THEN [k \in DOMAIN body.items |-> NormalizeItem(body.items[k])]
    ELSE <<>>

\* the 1-based positions of the items that fail validation
FailingItems(body) ==
    {k \in DOMAIN normalizedItems(body) : ItemIssues(normalizedItems(body)[k]) # {}}

Min(S) == CHOOSE x \in S : \A y \in S : x <= y

\* the synchronous part of the handler, up to storage.createPurchaseOrder
PostValidate ==
    /\ post.pc = "received"
    /\ IF post.body.supplier_name = UndefStr \/ post.body.supplier_name = NullStr
       THEN \* insertPurchaseOrderSchema.parse throws: 400 without an item index
            post' = [post EXCEPT !.pc = "responded", !.status = 400,
                                 !.fields = {"supplierName"}]
       ELSE IF post.body.itemsKind = "other"
       THEN post' = [post EXCEPT !.pc = "responded", !.status = 400,
                                 !.fields = {"items"}]
       ELSE IF FailingItems(post.body) # {}
       THEN LET k == Min(FailingItems(post.body)) IN
            post' = [post EXCEPT !.pc = "responded", !.status = 400,
                                 !.itemIndex = k - 1,
                                 !.fields = ItemIssues(normalizedItems(post.body)[k])]
       ELSE post' = [post EXCEPT !.pc = "header",
                        !.validated = [k \in DOMAIN normalizedItems(post.body) |->
                                          ParsedItem(normalizedItems(post.body)[k])]]
    /\ UNCHANGED <<clientVars, chatReq, answeredEver, productReq, priceListRows, catalog,
                   purchaseOrders, poItems, postCount, overtaken>>

\* storage.createPurchaseOrder(validatedPoData)
PostCreateHeader ==
    /\ post.pc = "header"
    /\ purchaseOrders' = purchaseOrders \cup
           {[id |-> post.poId, supplierName |-> post.body.supplier_name,
             itemsRequested |-> Len(post.validated)]}
    /\ post' = [post EXCEPT !.pc = "items"]
    /\ UNCHANGED <<clientVars, chatReq, answeredEver, productReq, priceListRows, catalog,
                   poItems, postCount, overtaken>>

\* one turn of the loop: storage.createPoItem({...item, poId: po.id})
PostCreateItem ==
    /\ post.pc = "items"
    /\ post.created < Len(post.validated)
    /\ LET item == post.validated[post.created + 1] IN
       poItems' = poItems \cup
           {[poId |-> post.poId, row |-> post.created + 1, sku |-> item.sku,
             quantity |-> item.quantity, unitPrice |-> item.unitPrice,
             lineTotal |-> item.lineTotal]}
    /\ post' = [post EXCEPT !.created = post.created + 1]
    /\ UNCHANGED <<clientVars, chatReq, answeredEver, productReq, priceListRows, catalog,
                   purchaseOrders, postCount, overtaken>>

\* a storage call of the handler throws (the database rejects or drops the
\* statement): the catch block answers 500, nothing is undone
PostStorageFails ==
    /\ \/ post.pc = "header"
       \/ post.pc = "items" /\ post.created < Len(post.validated)
    /\ post' = [post EXCEPT !.pc = "responded", !.status = 500]
    /\ UNCHANGED <<clientVars, chatReq, answeredEver, productReq, priceListRows, catalog,
                   purchaseOrders, poItems, postCount, overtaken>>

\* after the loop: getPurchaseOrderWithItems and res.json
PostRespond ==
    /\ post.pc = "items"
    /\ post.created = Len(post.validated)
    /\ post' = [post EXCEPT !.pc = "responded", !.status = 200]
    /\ UNCHANGED <<clientVars, chatReq, answeredEver, productReq, priceListRows, catalog,
                   purchaseOrders, poItems, postCount, overtaken>>

\* savePOMutation.onSuccess: the session is reset
SavePOOnSuccess ==
    /\ post.pc = "responded"
    /\ post.via = "client"
    /\ post.status = 200
    /\ aiResponse' = NoDraft
    /\ editingItems' = EmptyMap
    /\ clarificationAnswers' = EmptyMap
    /\ post' = NoPost
    /\ UNCHANGED <<activeQuestionDetails, chatReq, answeredEver, productReq,
                   priceListRows, catalog, purchaseOrders, poItems, postCount, overtaken>>

\* savePOMutation.onError (a toast), or the direct caller reading its response
PostDone ==
    /\ post.pc = "responded"
    /\ post.via = "direct" \/ post.status # 200
    /\ post' = NoPost
    /\ UNCHANGED <<clientVars, chatReq, answeredEver, productReq, priceListRows, catalog,
                   purchaseOrders, poItems, postCount, overtaken>>

\* storage.getPurchaseOrderWithItems(id): what GET /api/purchase-orders/:id, which
\* changes nothing, answers to a client that reads at this moment
getPurchaseOrderWithItems(id) ==
    IF \E h \in purchaseOrders : h.id = id
    THEN [found |-> TRUE, poId |-> id, items |-> {r \in poItems : r.poId = id}]
    ELSE NoRead

----------------------------------------------------------------------------
(* SpecCommit: one draft, edited and committed, and direct POSTs *)

\* items of a generated draft: complete but for at most one field
GoodItem == DraftPOItem("A1", 2, 1254, 999, 93, {})
GenItems ==
    {GoodItem,
     [GoodItem EXCEPT !.sku = NullStr],
     [GoodItem EXCEPT !.sku = " "],
     [GoodItem EXCEPT !.unit_price = NullNum, !.line_total = NullNum],
     [GoodItem EXCEPT !.unit_price = 0, !.line_total = 0]}

GenDrafts ==
    {AIParserResponse(sn, its, <<>>) :
        sn \in {"", "S1"}, its \in SeqsUpTo(GenItems, MaxItems)}

InitCommit ==
    /\ aiResponse \in GenDrafts \cup {NoDraft}
    /\ InitRest

NextCommit ==
    \/ StartEditingItem
    \/ CancelEditingItem
    \/ SaveEditedItem
    \/ UpdateEditingItem
    \/ HandleSavePO
    \/ DirectPost
    \/ PostValidate
    \/ PostCreateHeader
    \/ PostCreateItem
    \/ PostStorageFails
    \/ PostRespond
    \/ SavePOOnSuccess
    \/ PostDone

SpecCommit == InitCommit /\ [][NextCommit]_vars

----------------------------------------------------------------------------
(* Out-of-band product creation: suppliers.tsx openCreateProductDialog,    *)
(* createProductMutation, and POST /api/price-lists                         *)

\* the indexes of a relatedItemIndexes list
Includes(relatedIndexes) == {relatedIndexes[j] : j \in DOMAIN relatedIndexes}

\* "Create new product" under a question of type sku or price
OpenCreateProductDialog ==
    /\ aiResponse.present
    /\ ~productReq.open
    /\ \E k \in DOMAIN aiResponse.questions :
          LET question == aiResponse.questions[k]
              questionType == detectQuestionType(question.question)
              rel == question.related_item_indexes
              hasBase == Len(rel) > 0 /\ (rel[1] \in DOMAIN editingItems
                                           \/ rel[1] + 1 \in DOMAIN aiResponse.items)
              baseItem == IF rel[1] \in DOMAIN editingItems THEN editingItems[rel[1]]
                          ELSE aiResponse.items[rel[1] + 1]
          IN /\ questionType \in {"sku", "price"}
             /\ productReq' =
                   [productReq EXCEPT
                      !.open = TRUE,
                      !.form = IF hasBase
                               THEN [sku |-> CoalesceStr(baseItem.sku, ""),
                                     productName |-> CoalesceStr(baseItem.product_name, ""),
                                     unitType |-> CoalesceStr(baseItem.unit_type, "unit"),
                                     unitPrice |-> Coalesce(baseItem.unit_price, 0)]
                               ELSE DefaultProductForm]
             /\ activeQuestionDetails' =
                   [present |-> TRUE, id |-> question.id, type |-> questionType,
                    relatedItemIndexes |-> rel]
    /\ UNCHANGED <<aiResponse, editingItems, clarificationAnswers, chatReq, answeredEver,
                   priceListRows, catalog, purchaseOrders, poItems, post, postCount,
                   overtaken>>

\* values typed into the SKU and unit price fields of the dialog
FormSkus == {"", "N1"}
FormPrices == {0, 2000}

EditProductForm ==
    /\ productReq.open
    /\ productReq.pc # "pending"
    /\ \E sku \in FormSkus, unitPrice \in FormPrices :
          productReq' = [productReq EXCEPT !.form.sku = sku, !.form.unitPrice = unitPrice]
    /\ UNCHANGED <<clientVars, chatReq, answeredEver, priceListRows, catalog, purchaseOrders,
                   poItems, post, postCount, overtaken>>

\* handleCreateProductSubmit: insertPriceListRowSchema accepts any string as sku
\* and any number as unitPrice; the Save Product button is disabled while pending
HandleCreateProductSubmit ==
    /\ productReq.open
    /\ productReq.pc # "pending"
    /\ productReq.submitted < MaxProducts
    /\ productReq' = [productReq EXCEPT !.pc = "pending", !.variables = productReq.form,
                                        !.from = activeQuestionDetails,
                                        !.submitted = productReq.submitted + 1]
    /\ UNCHANGED <<clientVars, chatReq, answeredEver, priceListRows, catalog, purchaseOrders,
                   poItems, post, postCount, overtaken>>

\* the dialog's onOpenChange(false): Escape, the close button, a click outside
CloseCreateProductDialog ==
    /\ productReq.open
    /\ productReq' = [productReq EXCEPT !.open = FALSE, !.form = DefaultProductForm]
    /\ activeQuestionDetails' = NoActiveQuestion
    /\ UNCHANGED <<aiResponse, editingItems, clarificationAnswers, chatReq, answeredEver,
                   priceListRows, catalog, purchaseOrders, poItems, post, postCount,
                   overtaken>>

\* the Cancel button: setIsCreateProductOpen(false) and nothing else
CancelCreateProduct ==
    /\ productReq.open
    /\ productReq' = [productReq EXCEPT !.open = FALSE]
    /\ UNCHANGED <<clientVars, chatReq, answeredEver, priceListRows, catalog, purchaseOrders,
                   poItems, post, postCount, overtaken>>

\* POST /api/price-lists: insertPriceListRowSchema.parse and createPriceListRow
PostPriceLists ==
    /\ productReq.pc = "pending"
    /\ priceListRows' = priceListRows \cup
           {[supplierName |-> "S1", sku |-> productReq.variables.sku,
             unitType |-> productReq.variables.unitType,
             unitPrice |-> productReq.variables.unitPrice]}
    /\ productReq' = [productReq EXCEPT !.pc = "created"]
    /\ UNCHANGED <<clientVars, chatReq, answeredEver, catalog, purchaseOrders, poItems,
                   post, postCount, overtaken>>

\* the request fails: createProductMutation.onError shows a toast
CreateProductOnError ==
    /\ productReq.pc = "pending"
    /\ productReq' = [productReq EXCEPT !.pc = "error"]
    /\ UNCHANGED <<clientVars, chatReq, answeredEver, priceListRows, catalog, purchaseOrders,
                   poItems, post, postCount, overtaken>>

\* the update createProductMutation.onSuccess makes to a related item
ApplyProduct(item, variables) ==
    [item EXCEPT
       !.sku = variables.sku,
       !.product_name = IF Truthy(variables.productName) THEN variables.productName
                        ELSE item.product_name,
       !.unit_type = variables.unitType,
       !.unit_price = variables.unitPrice,
       !.line_total = IF item.quantity # 0 /\ variables.unitPrice # 0
                      THEN round2(item.quantity * variables.unitPrice)
                      ELSE item.line_total,
       !.ai_confidence = Max(item.ai_confidence, 95),
       !.ai_uncertain_fields = item.ai_uncertain_fields \ {"sku", "unit_price", "price"}]

\* the same pass without the test updates[question.id] === undefined
RECURSIVE FillAnswersOverwriting(_, _, _, _)
FillAnswersOverwriting(updates, questions, relatedIndexes, variables) ==
    IF questions = <<>> THEN updates
    ELSE LET question == Head(questions)
             type == detectQuestionType(question.question)
             next ==
                IF Includes(question.related_item_indexes) \cap Includes(relatedIndexes) = {}
                THEN updates
                ELSE IF type = "price"
                THEN MapPut(updates, question.id, NumAnswer(variables.unitPrice))
                ELSE IF type \in {"sku", "selection"}
                THEN MapPut(updates, question.id, StrAnswer(variables.sku))
                ELSE updates
         IN FillAnswersOverwriting(next, Tail(questions), relatedIndexes, variables)

\* the last setClarificationAnswers of onSuccess: unanswered questions of the
\* current draft that share an item with the active question
RECURSIVE FillAnswers(_, _, _, _)
FillAnswers(updates, questions, relatedIndexes, variables) ==
    IF questions = <<>> THEN updates
    ELSE LET question == Head(questions)
             type == detectQuestionType(question.question)
             next ==
                IF Includes(question.related_item_indexes) \cap Includes(relatedIndexes) = {}
                   \/ question.id \in DOMAIN updates
                THEN updates
                ELSE IF type = "price"
                THEN MapPut(updates, question.id, NumAnswer(variables.unitPrice))
                ELSE IF type \in {"sku", "selection"}
                THEN MapPut(updates, question.id, StrAnswer(variables.sku))
                ELSE updates
         IN FillAnswers(next, Tail(questions), relatedIndexes, variables)

\* createProductMutation.onSuccess
CreateProductOnSuccess ==
    /\ productReq.pc = "created"
    /\ LET variables == productReq.variables
           relatedIndexes == Includes(activeQuestionDetails.relatedItemIndexes)
           answered == handleClarificationAnswer(clarificationAnswers,
                          activeQuestionDetails.id,
                          IF activeQuestionDetails.type = "price"
                          THEN NumAnswer(variables.unitPrice)
                          ELSE StrAnswer(variables.sku))
       IN IF activeQuestionDetails.present
          THEN /\ aiResponse' =
                     IF ~aiResponse.present THEN aiResponse
                     ELSE [aiResponse EXCEPT !.items =
                             [k \in DOMAIN aiResponse.items |->
                                IF (k - 1) \in relatedIndexes
                                THEN ApplyProduct(aiResponse.items[k], variables)
                                ELSE aiResponse.items[k]]]
               /\ editingItems' =
                     [i \in DOMAIN editingItems |->
                        IF i \in relatedIndexes
                        THEN ApplyProduct(editingItems[i], variables)
                        ELSE editingItems[i]]
               /\ clarificationAnswers' =
                     IF aiResponse.present
                     THEN FillAnswers(answered, aiResponse.questions,
                                      activeQuestionDetails.relatedItemIndexes, variables)
                     ELSE answered
          ELSE UNCHANGED <<aiResponse, editingItems, clarificationAnswers>>
    /\ activeQuestionDetails' = NoActiveQuestion
    /\ productReq' = [productReq EXCEPT !.pc = "success", !.open = FALSE,
                                        !.form = DefaultProductForm]
    /\ UNCHANGED <<chatReq, answeredEver, priceListRows, catalog, purchaseOrders, poItems, post,
                   postCount, overtaken>>

----------------------------------------------------------------------------
(* SpecOob: one draft with pending questions and the create-product dialog *)

\* the question with id n: odd ids ask for a SKU, even ids for a price
OobQuestion(n, rel) ==
    IF n % 2 = 1 THEN AIQuestion(n, {"sku"}, rel) ELSE AIQuestion(n, {"price"}, rel)

RECURSIVE OobQuestionList(_, _, _)
OobQuestionList(S, n, rel) ==
    IF n > MaxQ THEN <<>>
    ELSE IF n \in S THEN <<OobQuestion(n, rel)>> \o OobQuestionList(S, n + 1, rel)
    ELSE OobQuestionList(S, n + 1, rel)

\* an unresolved item without line total, a resolved one with its line total
OobItems == {LowItem, [HighItem EXCEPT !.ai_confidence = 98, !.line_total = 1250]}

OobDrafts ==
    {AIParserResponse("S1", its, OobQuestionList(S, 1, rel)) :
        its \in [1..MaxItems -> OobItems],
        S \in (SUBSET QIds) \ {{}},
        rel \in {<<>>, <<0>>, <<0, 1>>}}

InitOob ==
    /\ aiResponse \in OobDrafts
    /\ InitRest

NextOob ==
    \/ HandleClarificationAnswer
    \/ StartEditingItem
    \/ OpenCreateProductDialog
    \/ EditProductForm
    \/ HandleCreateProductSubmit
    \/ CloseCreateProductDialog
    \/ CancelCreateProduct
    \/ PostPriceLists
    \/ CreateProductOnError
    \/ CreateProductOnSuccess

SpecOob == InitOob /\ [][NextOob]_vars

----------------------------------------------------------------------------
(* SpecSession: one page, its chat requests and the Discard button; the     *)
(* user does not wait for a response before the next click; the engine is   *)
(* healthy, so no request of the session fails                              *)

\* what the engine answers in a session: one item, any questions
SessionResponses ==
    {AIParserResponse("S1", <<HighItem>>, QuestionList(S, 1)) : S \in SUBSET QIds}

\* the Continue Draft button (disabled only by !allQuestionsAnswered) while a
\* chat request is in flight: handleContinueDraft has no test of isPending
HandleContinueDraftPending ==
    /\ chatReq.pc # "idle"
    /\ overtaken.chat.pc = "idle"
    /\ aiResponse.present
    /\ Len(aiResponse.questions) > 0
    /\ allQuestionsAnswered
    /\ overtaken' = [overtaken EXCEPT !.chat = chatReq]
    /\ chatReq' = [NoChatReq EXCEPT !.pc = "sent", !.route = "chat", !.hasAnswers = TRUE,
                                    !.previousDraft = aiResponse,
                                    !.answers = clarificationAnswers]
    /\ UNCHANGED <<clientVars, answeredEver, productReq, priceListRows, catalog,
                   purchaseOrders, poItems, post, postCount>>

\* handleSendMessage from the "Last 3 POs" button or Ctrl/Cmd+Enter in the
\* text area, neither of which is disabled while a chat request is in flight
HandleSendMessagePending ==
    /\ chatReq.pc # "idle"
    /\ overtaken.chat.pc = "idle"
    /\ overtaken' = [overtaken EXCEPT !.chat = chatReq]
    /\ \E m \in Messages :
          chatReq' = [NoChatReq EXCEPT !.pc = "sent", !.route = "chat", !.message = m,
                                       !.previousDraft = aiResponse]
    /\ UNCHANGED <<clientVars, answeredEver, productReq, priceListRows, catalog,
                   purchaseOrders, poItems, post, postCount>>

\* POST /api/chat for the overtaken request, the engine answering
PostChatOvertaken ==
    /\ overtaken.chat.pc = "sent"
    /\ \E o \in Answered(SessionResponses) :
          overtaken' = [overtaken EXCEPT !.chat = chatHandler(overtaken.chat, GoodEnv, o, TRUE)]
    /\ catalog' = chatCatalog(overtaken.chat, catalog)
    /\ UNCHANGED <<clientVars, chatReq, answeredEver, productReq, priceListRows,
                   purchaseOrders, poItems, post, postCount>>

\* POST /api/chat for the latest request, the engine answering
PostChatSession == PostChatUnder({GoodEnv}, Answered(SessionResponses))

\* chatMutation.onSuccess for the overtaken request: the callback of the
\* useMutation options runs for every mutation, not only for the latest
OvertakenOnSuccess ==
    /\ overtaken.chat.pc = "replied"
    /\ IF overtaken.chat.result.present
       THEN /\ aiResponse' = overtaken.chat.result
            /\ editingItems' = EmptyMap
            /\ clarificationAnswers' = EmptyMap
       ELSE UNCHANGED <<aiResponse, editingItems, clarificationAnswers>>
    /\ answeredEver' = CASE overtaken.chat.branch = "merge" ->
                                answeredEver \cup DOMAIN overtaken.chat.answers
                          [] overtaken.chat.branch = "generate" -> {}
                          [] OTHER -> answeredEver
    /\ overtaken' = [overtaken EXCEPT !.chat = NoChatReq]
    /\ UNCHANGED <<activeQuestionDetails, chatReq, productReq, priceListRows, catalog,
                   purchaseOrders, poItems, post, postCount>>

\* the Discard Draft button
DiscardDraft ==
    /\ aiResponse.present
    /\ aiResponse' = NoDraft
    /\ editingItems' = EmptyMap
    /\ clarificationAnswers' = EmptyMap
    /\ UNCHANGED <<activeQuestionDetails, chatReq, answeredEver, productReq, priceListRows,
                   catalog, purchaseOrders, poItems, post, postCount, overtaken>>

InitSession ==
    /\ aiResponse = NoDraft
    /\ InitRest

NextSession ==
    \/ HandleSendMessage
    \/ HandleClarificationAnswer
    \/ HandleContinueDraft
    \/ HandleSendMessagePending
    \/ HandleContinueDraftPending
    \/ StartEditingItem
    \/ DiscardDraft
    \/ PostChatSession
    \/ PostChatOvertaken
    \/ ChatOnSuccess
    \/ OvertakenOnSuccess

SpecSession == InitSession /\ [][NextSession]_vars

----------------------------------------------------------------------------
(* SpecSave: the three ways to save a draft, and the route that stores it   *)

\* handleSavePO while a save is in flight, from the 'Save via chat' button
\* (disabled only by !aiResponse || !canSaveDraft) or a typed "save purchase
\* order": handleSavePO has no test of savePOMutation.isPending
HandleSavePOPending ==
    /\ postCount <= MaxOrders
    /\ post.pc # "idle"
    /\ post.via = "client"
    /\ overtaken.post.pc = "idle"
    /\ aiResponse.present
    /\ canSaveDraft
    /\ aiResponse' = [aiResponse EXCEPT !.items = SavedItems]
    /\ overtaken' = [overtaken EXCEPT
                       !.post = [NoPost EXCEPT !.pc = "sent", !.via = "client",
                                   !.body = BodyOfDraft(aiResponse.supplier_name, SavedItems)]]
    /\ UNCHANGED <<editingItems, clarificationAnswers, activeQuestionDetails, chatReq,
                   answeredEver, productReq, priceListRows, catalog, purchaseOrders,
                   poItems, post, postCount>>

\* POST /api/purchase-orders receives the second request of the page once
\* the first has been answered
PostReceiveSecond ==
    /\ post.pc = "idle"
    /\ overtaken.post.pc = "sent"
    /\ post' = [overtaken.post EXCEPT !.pc = "received", !.poId = postCount + 1]
    /\ postCount' = postCount + 1
    /\ overtaken' = [overtaken EXCEPT !.post = NoPost]
    /\ UNCHANGED <<clientVars, chatReq, answeredEver, productReq, priceListRows, catalog,
                   purchaseOrders, poItems>>

NextSave ==
    \/ StartEditingItem
    \/ UpdateEditingItem
    \/ HandleSavePO
    \/ HandleSavePOPending
    \/ PostValidate
    \/ PostCreateHeader
    \/ PostCreateItem
    \/ PostStorageFails
    \/ PostRespond
    \/ PostReceiveSecond
    \/ SavePOOnSuccess
    \/ PostDone

SpecSave == InitCommit /\ [][NextSave]_vars

----------------------------------------------------------------------------
(* SpecForm: the form-based page (generateDraftMutation, clarifyDraftMutation) *)
(* with items in edit mode                                                     *)

NextForm ==
    \/ StartEditingItem
    \/ CancelEditingItem
    \/ HandleClarificationAnswer
    \/ GenerateDraftMutate
    \/ ClarifyDraftMutate
    \/ PostGenerateDraftPO
    \/ PostClarifyDraftPOAnswered
    \/ GenerateOnSuccess
    \/ ClarifyOnSuccess
    \/ ClarifyOnError

SpecForm == InitMerge /\ [][NextForm]_vars

----------------------------------------------------------------------------
(* Claims *)

\* the draft field(s) a question of the given text resolves
ResolvedFields(question) ==
    CASE detectQuestionType(question) = "sku" -> {"sku"}
      [] detectQuestionType(question) = "selection" -> {"sku"}
      [] detectQuestionType(question) = "price" -> {"unit_price", "price"}
      [] detectQuestionType(question) = "quantity" -> {"quantity"}
      [] OTHER -> {}

\* C1: the question list returned by regeneratePOWithClarifications contains no
\* question whose id is a key of the answers map, whatever the engine returned.
C1_QuestionPruning ==
    chatReq.pc = "replied" =>
        \A k \in DOMAIN chatReq.result.questions :
            chatReq.result.questions[k].id \notin DOMAIN chatReq.answers

\* C1 witness: a merge has returned for which the engine's output reintroduced an
\* answered question.
C1_Witness ==
    /\ chatReq.pc = "replied"
    /\ \E k \in DOMAIN chatReq.data.questions :
          chatReq.data.questions[k].id \in DOMAIN chatReq.answers

\* C2 (as claimed): a question id answered in some round of this draft never
\* appears in the question list of any later round.
C2_AnsweredNeverReappears ==
    aiResponse.present => ids(aiResponse.questions) \cap answeredEver = {}

\* C9 (as claimed): after a merge round every item referenced by an answered
\* question has the resolved field removed from its uncertain fields and has
\* confidence at least max(pre-merge confidence, 0.9).
C9_ConfidenceRepair ==
    chatReq.pc = "replied" =>
        \A k \in DOMAIN chatReq.previousDraft.questions :
            LET q == chatReq.previousDraft.questions[k] IN
            q.id \in DOMAIN chatReq.answers =>
                \A j \in DOMAIN q.related_item_indexes :
                    LET i == q.related_item_indexes[j] + 1 IN
                    (i \in DOMAIN chatReq.previousDraft.items
                        /\ i \in DOMAIN chatReq.result.items) =>
                        /\ chatReq.result.items[i].ai_uncertain_fields
                               \cap ResolvedFields(q.question) = {}
                        /\ chatReq.result.items[i].ai_confidence >=
                               Max(chatReq.previousDraft.items[i].ai_confidence, 90)

\* the item the page shows and saves at 1-based position k
ShownItem(k) ==
    IF (k - 1) \in DOMAIN editingItems THEN editingItems[k - 1]
    ELSE aiResponse.items[k]

\* C3: canSaveDraft is true exactly when the draft has a non-empty supplier name,
\* at least one item, and every current item (the edit copy where one exists)
\* has a non-empty trimmed sku, quantity > 0 and a non-null unit price > 0.
C3_CommitGate ==
    canSaveDraft <=>
        /\ aiResponse.present
        /\ aiResponse.supplier_name \notin {"", NullStr, UndefStr}
        /\ Len(aiResponse.items) >= 1
        /\ \A k \in DOMAIN aiResponse.items :
              /\ ShownItem(k).sku \notin {NullStr, UndefStr, "", " "}
              /\ ShownItem(k).quantity > 0
              /\ ShownItem(k).unit_price \notin {NullNum, UndefNum}
              /\ ShownItem(k).unit_price > 0

\* C3 witness: the gate is open although a draft item has no unit price, because
\* its edit copy has one.
C3_Witness ==
    /\ canSaveDraft
    /\ \E k \in DOMAIN aiResponse.items :
          /\ (k - 1) \in DOMAIN editingItems
          /\ aiResponse.items[k].unit_price = NullNum
          /\ editingItems[k - 1].unit_price > 0

\* the rows the request in post has created
PostHeaders == {h \in purchaseOrders : h.id = post.poId}
PostRows == {r \in poItems : r.poId = post.poId}

\* C4 (as claimed): an order answered with success by POST /api/purchase-orders,
\* from the page or from any other caller, has a non-empty supplier name, at least
\* one item, and on every item a non-empty trimmed sku, quantity > 0, unit price > 0.
C4_NoIncompleteOrder ==
    (post.pc = "responded" /\ post.status = 200) =>
        /\ \A h \in PostHeaders : h.supplierName \notin {"", NullStr, UndefStr}
        /\ PostRows # {}
        /\ \A r \in PostRows :
              /\ Trim(r.sku) # ""
              /\ r.quantity > 0
              /\ r.unitPrice > 0

\* C5 (as claimed): every persisted item has lineTotal = round2(quantity x unitPrice),
\* recomputed at commit, whatever line total the request carried.
C5_LineTotalRecomputed ==
    (post.pc = "responded" /\ post.status = 200) =>
        \A r \in PostRows : r.lineTotal = round2(r.quantity * r.unitPrice)

\* C6 (as claimed): a read of an order, at any moment, finds either no row of it
\* or its header together with all the items of the request that created it.
C6_AtomicPersist ==
    \A id \in 1..MaxOrders :
        getPurchaseOrderWithItems(id).found =>
            \E h \in purchaseOrders :
                /\ h.id = id
                /\ Cardinality(getPurchaseOrderWithItems(id).items) = h.itemsRequested

\* the items of the body that are draft items with unit_price null
NullPriceItems ==
    IF post.body.itemsKind = "array"
    THEN {k \in DOMAIN post.body.items :
            /\ post.body.items[k].unit_price = NullNum
            /\ post.body.items[k].unitPrice = UndefNum}
    ELSE {}

\* C7: a request rejected by validation has created no header and no item, and a
\* rejection caused by an item names an item index of the body and the failing
\* field(s); a body with an item whose unit_price is null never creates a row and
\* is answered 400 naming an item no later than that one, with field unitPrice
\* when it names that one (index 0 for a one-item draft).
C7_AllOrNothing ==
    /\ (post.pc = "responded" /\ post.status = 400) =>
          /\ PostHeaders = {} /\ PostRows = {}
          /\ post.itemIndex # NullNum =>
                /\ post.itemIndex + 1 \in DOMAIN post.body.items
                /\ post.fields # {}
    /\ (post.pc # "idle" /\ NullPriceItems # {}
          /\ post.body.supplier_name \notin {NullStr, UndefStr}) =>
          /\ PostHeaders = {} /\ PostRows = {}
          /\ post.pc \in {"received", "responded"}
          /\ post.pc = "responded" =>
                /\ post.status = 400
                /\ post.itemIndex # NullNum
                /\ \A k \in NullPriceItems : post.itemIndex + 1 <= k
                /\ post.itemIndex + 1 \in NullPriceItems => "unitPrice" \in post.fields
                /\ Len(post.body.items) = 1 =>
                      post.itemIndex = 0 /\ "unitPrice" \in post.fields

\* C7 witness: a two-item body whose first item is valid and whose second has
\* unit_price null was rejected naming index 1 and unitPrice.
C7_Witness ==
    /\ post.pc = "responded"
    /\ post.status = 400
    /\ Len(post.body.items) = 2
    /\ NullPriceItems = {2}
    /\ post.itemIndex = 1
    /\ post.fields = {"unitPrice"}
    /\ purchaseOrders = {}

\* C8 (as claimed): every item persisted by a save from the page has a sku that is
\* in the supplier's price list at persist time.
C8_ClosedWorldAtCommit ==
    (post.pc = "responded" /\ post.status = 200 /\ post.via = "client") =>
        \A h \in PostHeaders : \A r \in PostRows :
            \E p \in priceListRows :
                p.supplierName = h.supplierName /\ p.sku = r.sku

\* C10 (as claimed): when a product created from a pending question is saved,
\* every draft item whose index is in that question's relatedItemIndexes has the
\* created row's sku, unit price and unit type, none of 'sku', 'unit_price',
\* 'price' among its uncertain fields and confidence max(old, 0.95), and the
\* question's id is in the answers map with the price (price question) or the sku.
C10_OutOfBandResolution ==
    [][(productReq.pc = "created" /\ productReq'.pc = "success"
          /\ productReq.from.present /\ aiResponse.present) =>
          LET from == productReq.from
              variables == productReq.variables
          IN /\ aiResponse'.present
             /\ \A k \in DOMAIN aiResponse.items :
                   (k - 1) \in Includes(from.relatedItemIndexes) =>
                      /\ aiResponse'.items[k].sku = variables.sku
                      /\ aiResponse'.items[k].unit_price = variables.unitPrice
                      /\ aiResponse'.items[k].unit_type = variables.unitType
                      /\ aiResponse'.items[k].ai_uncertain_fields
                            \cap {"sku", "unit_price", "price"} = {}
                      /\ aiResponse'.items[k].ai_confidence =
                            Max(aiResponse.items[k].ai_confidence, 95)
             /\ from.id \in DOMAIN clarificationAnswers'
             /\ clarificationAnswers'[from.id] =
                   IF from.type = "price" THEN NumAnswer(variables.unitPrice)
                   ELSE StrAnswer(variables.sku)
      ]_vars

\* the fields of I1
PriceBearing == {"sku", "unitPrice", "unit_price", "price"}

\* I1 of a draft: an item with a price-bearing uncertain field is referenced by
\* a question
I1(draft) ==
    \A i \in DOMAIN draft.items :
        draft.items[i].ai_uncertain_fields \cap PriceBearing # {} =>
            \E k \in DOMAIN draft.questions :
                \E j \in DOMAIN draft.questions[k].related_item_indexes :
                    draft.questions[k].related_item_indexes[j] = i - 1

\* a merge round has returned its result
Merged ==
    /\ chatReq.pc = "replied"
    /\ chatReq.hasAnswers
    /\ chatReq.shape = "full"
    /\ chatReq.route = "chat" => chatReq.branch = "merge"

\* C11 (as claimed): the merge step does not introduce a violation of I1: when
\* the engine's output of the round satisfies I1, so does the merged result,
\* after the removal of the answered question ids.
C11_MergeKeepsI1 ==
    (Merged /\ I1(chatReq.data)) => I1(chatReq.result)

\* C12 (as claimed): a prior open question that was not answered is in the new
\* list under its id with unchanged content or is absent, and no question with
\* a new id asks for what an unanswered prior question asked.
C12_UnansweredPassthrough ==
    (Merged /\ DOMAIN chatReq.answers # {}) =>
        \A k \in DOMAIN chatReq.previousDraft.questions :
            LET q == chatReq.previousDraft.questions[k] IN
            q.id \notin DOMAIN chatReq.answers =>
                \A n \in DOMAIN chatReq.result.questions :
                    LET r == chatReq.result.questions[n] IN
                    /\ r.id = q.id => r = q
                    /\ r.id \notin ids(chatReq.previousDraft.questions) =>
                           ~(/\ r.question = q.question
                             /\ r.related_item_indexes = q.related_item_indexes)

\* some open question of the current draft has an answer
SomeAnswered ==
    /\ aiResponse.present
    /\ \E k \in DOMAIN aiResponse.questions :
          /\ aiResponse.questions[k].id \in DOMAIN clarificationAnswers
          /\ clarificationAnswers[aiResponse.questions[k].id] # StrAnswer("")

\* C13 (as claimed): a round can be submitted with any non-empty subset of the
\* open questions answered: the clarify route refuses only an empty map or an
\* unknown key, and the page's Continue is available as soon as some open
\* question is answered and no request is in flight.
C13_PartialRound ==
    /\ (chatReq.pc = "rejected" /\ chatReq.route = "clarify") => BadAnswers(chatReq)
    /\ (chatReq.pc = "idle" /\ SomeAnswered) => ENABLED HandleContinueDraft

\* a request with an answers map and a draft has been handled
MergeHandled ==
    /\ chatReq.pc \in {"replied", "failed", "rejected"}
    /\ chatReq.hasAnswers
    /\ chatReq.previousDraft.present
    /\ chatReq.route = "chat" => chatReq.branch = "merge"

\* C14 (as claimed): a request reaches the merge engine only with a non-empty
\* answers map whose keys are ids of the prior draft's questions; an empty map
\* or an unknown key is refused before any catalog read and any engine call.
C14_AnswersValidatedFirst ==
    MergeHandled =>
        /\ chatReq.engineCalled => ~BadAnswers(chatReq)
        /\ BadAnswers(chatReq) =>
              (chatReq.pc = "rejected" /\ ~chatReq.catalogRead /\ ~chatReq.engineCalled)

\* the engine function threw its rate-limit error while the request was handled
RateLimited == chatReq.pc = "failed" /\ chatReq.error.errorType = "rate_limit"

\* C15 (as claimed): when the upstream call answers 429 the caller receives the
\* rate-limited category, not a generic 500, on every route, and the page's
\* draft, pending answers and item edits are left as they were.
C15_RateLimitCategory ==
    /\ [](RateLimited => (chatReq.status = 503 /\ chatReq.errorType = "rate_limit"))
    /\ [][RateLimited => UNCHANGED <<aiResponse, clarificationAnswers, editingItems>>]_vars

\* the part of C15 that the code keeps: a failed request leaves the session alone
C15_SessionKept ==
    [][chatReq.pc = "failed" =>
          UNCHANGED <<aiResponse, clarificationAnswers, editingItems>>]_vars

\* the failure classes in the order the engine function examines them
FailureClasses ==
    <<"missing_key", "missing_base_url", "authentication", "rate_limit",
      "service_unavailable", "network", "empty_response", "json_parse_error">>

\* the call of the engine function meets the failure class
Meets(class, env, outcome) ==
    CASE class = "missing_key" -> ~env.key
      [] class = "missing_base_url" -> ~env.baseUrl
      [] class = "authentication" ->
            outcome.kind = "error"
            /\ (outcome.status = 401 \/ outcome.code = "invalid_api_key")
      [] class = "rate_limit" ->
            outcome.kind = "error"
            /\ (outcome.status = 429 \/ outcome.code = "rate_limit_exceeded")
      [] class = "service_unavailable" ->
            outcome.kind = "error"
            /\ (outcome.status = 503 \/ outcome.code = "service_unavailable")
      [] class = "network" ->
            outcome.kind = "error"
            /\ outcome.code \in {"ENOTFOUND", "ECONNREFUSED", "ETIMEDOUT"}
      [] class = "empty_response" -> outcome.kind = "empty"
      [] class = "json_parse_error" -> outcome.kind = "unparsable"

\* the first class of the order that the call meets, 0 if none
FirstClass(env, outcome) ==
    LET met == {i \in DOMAIN FailureClasses : Meets(FailureClasses[i], env, outcome)}
    IN IF met = {} THEN 0 ELSE CHOOSE i \in met : \A j \in met : i <= j

\* what tells the category of an error: details.errorType, and for the
\* credential errors, which carry no errorType, details.missingCredential
Category(error) ==
    IF error.missingCredential = "AI_INTEGRATIONS_OPENAI_API_KEY" THEN "missing_key"
    ELSE IF error.missingCredential = "AI_INTEGRATIONS_OPENAI_BASE_URL"
    THEN "missing_base_url"
    ELSE error.errorType

\* a call of the engine function has ended
EngineCallEnded == chatReq.route = "engine" /\ chatReq.pc \in {"failed", "replied"}

\* C16 (as claimed): each failure class produces an AIParserError whose type
\* tag (details.errorType) names the class, the first class met in the order
\* credentials, authentication, rate limit, service unavailable, network, empty,
\* unparsable wins, and empty and unparsable carry status 500, the others 503.
C16_TypeTagPerClass ==
    EngineCallEnded =>
        LET i == FirstClass(chatReq.env, chatReq.outcome) IN
        i # 0 =>
            /\ chatReq.pc = "failed"
            /\ chatReq.error.errorType # UndefStr
            /\ i >= 3 => chatReq.error.errorType = FailureClasses[i]
            /\ chatReq.error.statusCode = (IF i >= 7 THEN 500 ELSE 503)

\* C16 (amended): each failure class produces an AIParserError of its own
\* category, the first class met in the order wins, and empty and unparsable
\* carry status 500, the others 503; the category is details.errorType except
\* for missing credentials, whose error carries no errorType and is told by
\* details.missingCredential.
C16_CategoryPerClass ==
    EngineCallEnded =>
        LET i == FirstClass(chatReq.env, chatReq.outcome) IN
        i # 0 =>
            /\ chatReq.pc = "failed"
            /\ Category(chatReq.error) = FailureClasses[i]
            /\ (i <= 2) = (chatReq.error.errorType = UndefStr)
            /\ chatReq.error.statusCode = (IF i >= 7 THEN 500 ELSE 503)

\* an upstream error that is both an authentication and a rate-limit failure
\* has been classified
C16_Witness ==
    /\ EngineCallEnded
    /\ chatReq.outcome.kind = "error"
    /\ chatReq.outcome.status = 401
    /\ chatReq.outcome.code = "rate_limit_exceeded"
    /\ chatReq.error.errorType = "authentication"

\* generateDraftPO has returned a draft
Generated ==
    /\ chatReq.route = "engine"
    /\ chatReq.pc = "replied"
    /\ ~chatReq.hasAnswers
    /\ chatReq.shape = "full"

\* C17 (as claimed): in every draft returned by generateDraftPO an item with a
\* non-null sku has a sku of the price rows of the draft's supplier, or has
\* 'sku' among its uncertain fields and a question that references it.
C17_ClosedWorldAtGeneration ==
    Generated =>
        \A i \in DOMAIN chatReq.result.items :
            LET item == chatReq.result.items[i] IN
            item.sku # NullStr =>
                \/ \E p \in priceListRows :
                      /\ p.supplierName = chatReq.result.supplier_name
                      /\ p.sku = item.sku
                \/ /\ "sku" \in item.ai_uncertain_fields
                   /\ \E k \in DOMAIN chatReq.result.questions :
                         \E j \in DOMAIN chatReq.result.questions[k].related_item_indexes :
                             chatReq.result.questions[k].related_item_indexes[j] = i - 1

\* C18 (as claimed): whenever the upstream output parses as JSON,
\* generateDraftPO and regeneratePOWithClarifications return a response that
\* has a draft_po with its items and a questions_for_user list.
C18_AlwaysValidShape ==
    (chatReq.route = "engine" /\ chatReq.pc \in {"failed", "replied"}
        /\ chatReq.outcome.kind = "json") =>
        (chatReq.pc = "replied" /\ chatReq.shape = "full")

\* what the handler passed to the engine function
PassedSnapshot ==
    [suppliers |-> chatReq.snap.suppliers, priceRows |-> chatReq.snap.priceRows,
     companyAddress |-> chatReq.snap.companyAddress]

\* C19 (as claimed): the suppliers, price rows and rules passed to the engine
\* in one call are those of one catalog state, one of the states the catalog
\* was in while the handler ran, whatever catalog writes run beside it.
C19_SnapshotConsistency ==
    (chatReq.engineCalled /\ chatReq.snap.reads = 3) =>
        \E k \in DOMAIN chatReq.snap.states : chatReq.snap.states[k] = PassedSnapshot

ChatHandled == chatReq.route = "chat" /\ chatReq.pc \in {"replied", "failed", "rejected"}

\* the message holds one of the handler's side-channel keywords
SideChannelIntent(message) ==
    ("last" \in message /\ "purchase order" \in message) \/ "address" \in message

\* C21 (as claimed): a chat message sent with a pending draft and pending
\* answers is routed to the merge engine, and a message with no answers and no
\* recognised side-channel intent is routed to a fresh generation.
C21_DispatcherRoute ==
    ChatHandled =>
        /\ (chatReq.previousDraft.present /\ chatReq.hasAnswers) => chatReq.branch = "merge"
        /\ (~chatReq.hasAnswers /\ ~SideChannelIntent(chatReq.message)) =>
              chatReq.branch = "generate"

\* C22: a draft is terminal once discarded: when the page has no draft, no
\* response makes the discarded draft current again (the history reply
\* echoes the draft it was sent) nor a draft derived from it (a merge
\* reply); only a request sent without a draft, or a fresh generation, may
\* install a draft
C22_DiscardedIsTerminal ==
    [][(~aiResponse.present /\ aiResponse'.present) =>
          /\ (chatReq.pc = "replied" /\ chatReq'.pc = "idle") =>
                ~(chatReq.previousDraft.present /\ chatReq.branch \in {"merge", "history"})
          /\ (overtaken.chat.pc = "replied" /\ overtaken'.chat.pc = "idle") =>
                ~(overtaken.chat.previousDraft.present
                  /\ overtaken.chat.branch \in {"merge", "history"})]_vars

\* C23: rounds are sequential: at no time is a second generation or merge
\* request in flight beside the latest one, and the response of an older
\* request never replaces the draft once the newer request has completed
C23_OlderNeverOverwrites ==
    [][(overtaken.chat.pc = "replied" /\ overtaken'.chat.pc = "idle" /\ chatReq.pc = "idle")
          => aiResponse' = aiResponse]_vars

C23_SequentialRounds ==
    /\ [](overtaken.chat.pc = "idle")
    /\ C23_OlderNeverOverwrites

\* C24: after the creation of a product has set the unit price of the items
\* of the active question, each of these items keeps I2: its line total,
\* when not null, is round2(quantity * unit_price), whatever price the
\* created row carries
C24_LineTotalAfterProduct ==
    [][(productReq.pc = "created" /\ productReq'.pc = "success"
        /\ activeQuestionDetails.present /\ aiResponse.present) =>
          \A k \in DOMAIN aiResponse'.items :
             ((k - 1) \in Includes(activeQuestionDetails.relatedItemIndexes)
              /\ aiResponse'.items[k].line_total # NullNum) =>
                aiResponse'.items[k].line_total =
                   round2(aiResponse'.items[k].quantity * aiResponse'.items[k].unit_price)]_vars

\* the 0-based indexes of the items a question answered in this round refers to
TouchedByAnswers(req) ==
    UNION {Includes(req.previousDraft.questions[k].related_item_indexes) :
             k \in {n \in DOMAIN req.previousDraft.questions :
                      req.previousDraft.questions[n].id \in DOMAIN req.answers}}

\* C25: a merge round keeps what the answers do not touch: the supplier name
\* and every item of the previous draft that no answered question refers to
\* are in the result as they were
C25_MergeFrame ==
    Merged =>
        /\ chatReq.result.supplier_name = chatReq.previousDraft.supplier_name
        /\ \A i \in DOMAIN chatReq.previousDraft.items :
              (i - 1) \notin TouchedByAnswers(chatReq) =>
                  /\ i \in DOMAIN chatReq.result.items
                  /\ chatReq.result.items[i] = chatReq.previousDraft.items[i]

\* createProductMutation.onSuccess runs in this step
ProductApplied == productReq.pc = "created" /\ productReq'.pc = "success"

\* C26: the creation of a product leaves unchanged every item whose index is
\* not among the active question's relatedItemIndexes, the supplier name and
\* the question list; it keeps every answer already given to a question other
\* than the active one; and with no active question it changes neither the
\* draft nor the answers
C26_ProductFrame ==
    [][ProductApplied =>
          /\ aiResponse'.present = aiResponse.present
          /\ aiResponse'.supplier_name = aiResponse.supplier_name
          /\ aiResponse'.questions = aiResponse.questions
          /\ DOMAIN aiResponse'.items = DOMAIN aiResponse.items
          /\ \A k \in DOMAIN aiResponse.items :
                (k - 1) \notin Includes(activeQuestionDetails.relatedItemIndexes) =>
                    aiResponse'.items[k] = aiResponse.items[k]
          /\ \A id \in DOMAIN clarificationAnswers :
                id # activeQuestionDetails.id =>
                    /\ id \in DOMAIN clarificationAnswers'
                    /\ clarificationAnswers'[id] = clarificationAnswers[id]
          /\ ~activeQuestionDetails.present =>
                /\ aiResponse' = aiResponse
                /\ clarificationAnswers' = clarificationAnswers]_vars

\* a product was created for a question about item 0 only: item 0 carries the
\* new SKU, item 1 is as generated, and the answer typed for the other
\* question is still there beside the one the creation filled in
C26_Witness ==
    /\ productReq.pc = "success"
    /\ aiResponse.present
    /\ Len(aiResponse.items) = 2
    /\ aiResponse.items[1].sku = "N1"
    /\ aiResponse.items[2].sku = "A1"
    /\ Len(aiResponse.questions) = 2
    /\ DOMAIN clarificationAnswers = {1, 2}
    /\ \E id \in {1, 2} : clarificationAnswers[id] = StrAnswer("A1")

\* chatMutation.onSuccess runs in this step for a reply of a keyword branch
SideChannelApplied ==
    /\ chatReq.pc = "replied"
    /\ chatReq'.pc = "idle"
    /\ chatReq.branch \in {"history", "address"}

\* C27: the reply to a side-channel message (purchase-order history, company
\* address) leaves the current draft, the pending answers and the item edits
\* in progress as they were
C27_SideChannelFrame ==
    [][SideChannelApplied =>
          UNCHANGED <<aiResponse, clarificationAnswers, editingItems>>]_vars

\* C28: a draft is persisted at most once: while a POST /api/purchase-orders
\* of the page is in flight, the page issues no second one, whichever of the
\* Save button, the 'Save via chat' button or a typed "save purchase order"
\* is used
C28_SingleSave == overtaken.post.pc = "idle"

\* two orders stored from one draft
C28_TwoOrders == Cardinality(purchaseOrders) >= 2

\* a response installs a draft in this step
DraftReplaced ==
    /\ chatReq.pc = "replied"
    /\ chatReq'.pc = "idle"
    /\ aiResponse'.present
    /\ aiResponse' # aiResponse

\* C29: whenever a generation or merge result replaces the current draft, the
\* item edits in progress are cleared with it, so that every entry of
\* editingItems is the copy of an item of the current draft
C29_EditsClearedOnReplace ==
    [][DraftReplaced => editingItems' = EmptyMap]_vars

\* an edit started on an item of an earlier draft stands for an index the
\* current draft does not have
C29_StaleEdit ==
    /\ aiResponse.present
    /\ \E i \in DOMAIN editingItems : (i + 1) \notin DOMAIN aiResponse.items

\* an item edit is closed in this step: an entry leaves editingItems while no
\* save request is made or answered
EditClosed ==
    /\ post.pc = "idle"
    /\ post' = post
    /\ DOMAIN editingItems' # DOMAIN editingItems
    /\ DOMAIN editingItems' \subseteq DOMAIN editingItems

====
